---------------------------- MODULE Spec2Model ----------------------------
(***************************************************************************)
(* Model of the 3D model viewer: the post-processing effect chain that     *)
(* PostEffects builds from settings.postEffects, the deformation           *)
(* amplitude controller driven by clicks and by the render loop, the       *)
(* settings state with its export and import, and the model loader.        *)
(*                                                                         *)
(* Numbers of the settings record are held in thousandths (1.5 is 1500),   *)
(* hdriIndex is an index; amplitudes are in units of 0.00001, times in     *)
(* milliseconds, decay speeds in tenths per second.                        *)
(* A property that a JavaScript object does not have is a field the record *)
(* does not have.                                                          *)
(***************************************************************************)
EXTENDS Integers, Sequences, FiniteSets, TLC

VARIABLES
    postEffects,   \* settings.postEffects, the state of useModelViewer
    pending,       \* state updates issued since PostEffects last rendered
    edits,         \* number of settings changes made so far
    memoDeps,      \* dependency values stored by useMemo at its last build
    effects,       \* the memoised effect list of PostEffects
    composer,      \* what PostEffects returned: null (nothing mounted) or an
                   \* EffectComposer with its children
    target,        \* the mounted deformable object and the hook that drives it
    amplitude,     \* amplitudeRef.current, in units of 0.00001
    time,          \* timeRef.current, in milliseconds
    uniforms,      \* the uniform records written every frame
    elapsed,       \* milliseconds of decay since the last trigger
    model,         \* the model object given to useModelDeform
    loaded,        \* number of model objects created by the loader so far
    materials,     \* the materials of that model: flag, hook and shader
    last,          \* the most recent call: operation, deltaTime, the amplitude
                   \* before it, and the number of triggers since the last frame
    viewer,        \* the top-level fields of settings, the state of
                   \* useModelViewer
    closure,       \* the settings the handlers captured when ModelViewer last
                   \* rendered
    issued,        \* the state updates of useModelViewer issued since that
                   \* render
    io,            \* the most recent export or import of a settings file
    loader         \* the state of useModelLoader, its loads in flight and the
                   \* object URLs it created

fxVars == <<postEffects, pending, edits, memoDeps, effects, composer>>

sceneVars == <<model, loaded, materials>>

deformVars == <<target, amplitude, time, uniforms, elapsed, model, loaded,
                materials, last>>

appVars == <<viewer, closure, issued, io, loader>>

vars == <<postEffects, pending, edits, memoDeps, effects, composer,
          target, amplitude, time, uniforms, elapsed, model, loaded,
          materials, last, viewer, closure, issued, io, loader>>

(***************************************************************************)
(* Bounds                                                                  *)
(***************************************************************************)
\* settings changes explored from the initial state
MaxEdits == 2
\* state updates that may be batched before PostEffects renders again
MaxPending == 2

(***************************************************************************)
(* Settings record                                                         *)
(***************************************************************************)
POST_EFFECT_BOOLEAN_KEYS ==
    { "bloomEnabled", "vignetteEnabled", "toneMappingEnabled", "smaaEnabled",
      "hueSaturationEnabled", "depthOfFieldEnabled", "colorAverageEnabled",
      "pixelationEnabled", "dotScreenEnabled", "glitchEnabled",
      "cyberpunkEnabled" }

POST_EFFECT_NUMBER_KEYS ==
    { "bloomIntensity", "bloomThreshold", "vignetteOffset", "vignetteDarkness",
      "hue", "saturation", "focusDistance", "focalLength", "bokehScale",
      "pixelationGranularity", "dotScreenScale",
      "cyberpunkScanlineDensity", "cyberpunkScanlineStrength",
      "cyberpunkNoiseStrength", "cyberpunkRgbShiftStrength" }

POST_EFFECT_TUPLE_KEYS == { "glitchDelay", "glitchDuration", "glitchStrength" }

DEFAULT_POST_EFFECT_SETTINGS ==
    [ bloomEnabled |-> FALSE, bloomIntensity |-> 1000, bloomThreshold |-> 900,
      vignetteEnabled |-> FALSE, vignetteOffset |-> 500, vignetteDarkness |-> 500,
      toneMappingEnabled |-> FALSE,
      smaaEnabled |-> TRUE,
      hueSaturationEnabled |-> FALSE, hue |-> 0, saturation |-> 0,
      depthOfFieldEnabled |-> FALSE, focusDistance |-> 20, focalLength |-> 500,
      bokehScale |-> 2000,
      colorAverageEnabled |-> FALSE,
      pixelationEnabled |-> FALSE, pixelationGranularity |-> 5000,
      dotScreenEnabled |-> FALSE, dotScreenScale |-> 1000,
      glitchEnabled |-> FALSE, glitchDelay |-> <<1500, 3500>>,
      glitchDuration |-> <<600, 1000>>, glitchStrength |-> <<300, 1000>> ]

\* values a control of the panel can give to a parameter
SliderValues(key) ==
    CASE key = "bloomIntensity"        -> {1000, 1500}
      [] key = "bloomThreshold"        -> {900, 500}
      [] key = "vignetteOffset"        -> {500, 300}
      [] key = "vignetteDarkness"      -> {500, 800}
      [] key = "hue"                   -> {0, -1000, 500}
      [] key = "saturation"            -> {0, 400}
      [] key = "focusDistance"         -> {20, 1000}
      [] key = "focalLength"           -> {500, 50}
      [] key = "bokehScale"            -> {2000, 4500}
      [] key = "pixelationGranularity" -> {5000, 12000}
      [] key = "dotScreenScale"        -> {1000, 2500}
      [] key = "cyberpunkScanlineDensity"  -> {500, 700}
      [] key = "cyberpunkScanlineStrength" -> {200, 600}
      [] key = "cyberpunkNoiseStrength"    -> {100, 300}
      [] key = "cyberpunkRgbShiftStrength" -> {5, 10}
      [] key = "glitchDelay"           -> {<<1500, 3500>>, <<1000, 3500>>}
      [] key = "glitchDuration"        -> {<<600, 1000>>, <<600, 2000>>}
      [] key = "glitchStrength"        -> {<<300, 1000>>, <<300, 1500>>}

\* the top-level fields of DEFAULT_VIEWER_SETTINGS; its postEffects field is
\* DEFAULT_POST_EFFECT_SETTINGS
DEFAULT_VIEWER_SETTINGS ==
    [ wireframe |-> FALSE, showGrid |-> TRUE, showAxes |-> FALSE,
      backgroundColor |-> "#1a1a2e", autoRotate |-> FALSE,
      lightAzimuth |-> 45000, lightElevation |-> 60000,
      lightDistance |-> 12000,
      directionalLightEnabled |-> TRUE, directionalLightColor |-> "#ffffff",
      directionalLightIntensity |-> 1000,
      hdriIndex |-> 0, hdriRotation |-> 0, hdriIntensity |-> 500,
      hdriEnabled |-> TRUE, backgroundMode |-> "color" ]

\* a ViewerSettings value: the top-level fields and the postEffects field
ViewerSettings(top, pe) == [viewer |-> top, postEffects |-> pe]

\* { ...prev, [key]: value }
Spread(prev, key, value) ==
    [f \in (DOMAIN prev) \cup {key} |-> IF f = key THEN value ELSE prev[f]]

\* JavaScript truthiness of a flag; a missing property is undefined
Truthy(s, key) == key \in DOMAIN s /\ s[key] = TRUE


(***************************************************************************)
(* PostEffects: the effect list built inside useMemo                       *)
(***************************************************************************)
\* hue * Math.PI, in thousandths of a radian
HueTimesPi(hue) == (hue * 31416) \div 10000

SMAAStage(s) == [type |-> "SMAA", key |-> "smaa"]

\* a Bloom stage whose two parameters are exchanged
BloomStageSwapped(s) ==
    [type |-> "Bloom", key |-> "bloom", intensity |-> s.bloomThreshold,
     luminanceThreshold |-> s.bloomIntensity, luminanceSmoothing |-> 900]

BloomStage(s) ==
    [type |-> "Bloom", key |-> "bloom", intensity |-> s.bloomIntensity,
     luminanceThreshold |-> s.bloomThreshold, luminanceSmoothing |-> 900]

VignetteStage(s) ==
    [type |-> "Vignette", key |-> "vignette", offset |-> s.vignetteOffset,
     darkness |-> s.vignetteDarkness, blendFunction |-> "NORMAL"]

ToneMappingStage(s) ==
    [type |-> "ToneMapping", key |-> "toneMapping", mode |-> "ACES_FILMIC"]

HueSaturationStage(s) ==
    [type |-> "HueSaturation", key |-> "hueSaturation",
     hue |-> HueTimesPi(s.hue), saturation |-> s.saturation]

DepthOfFieldStage(s) ==
    [type |-> "DepthOfField", key |-> "depthOfField",
     focusDistance |-> s.focusDistance, focalLength |-> s.focalLength,
     bokehScale |-> s.bokehScale]

ColorAverageStage(s) == [type |-> "ColorAverage", key |-> "colorAverage"]

PixelationStage(s) ==
    [type |-> "Pixelation", key |-> "pixelation",
     granularity |-> s.pixelationGranularity]

\* a DotScreen stage that takes its scale from the Pixelation parameter
DotScreenStageCopied(s) ==
    [type |-> "DotScreen", key |-> "dotScreen", scale |-> s.pixelationGranularity]

DotScreenStage(s) ==
    [type |-> "DotScreen", key |-> "dotScreen", scale |-> s.dotScreenScale]

\* if (flag) effectList.push(stage)
Push(flag, stage) == IF flag = TRUE THEN <<stage>> ELSE <<>>

\* the callback given to useMemo
BuildEffects(s) ==
       Push(s.smaaEnabled, SMAAStage(s))
    \o Push(s.bloomEnabled, BloomStage(s))
    \o Push(s.vignetteEnabled, VignetteStage(s))
    \o Push(s.toneMappingEnabled, ToneMappingStage(s))
    \o Push(s.hueSaturationEnabled, HueSaturationStage(s))
    \o Push(s.depthOfFieldEnabled, DepthOfFieldStage(s))
    \o Push(s.colorAverageEnabled, ColorAverageStage(s))
    \o Push(s.pixelationEnabled, PixelationStage(s))
    \o Push(s.dotScreenEnabled, DotScreenStage(s))

\* a dependency array in which bloomIntensity was forgotten
MemoDepsShort(s) ==
    << s.smaaEnabled, s.bloomEnabled, s.bloomThreshold,
       s.vignetteEnabled, s.vignetteOffset, s.vignetteDarkness,
       s.toneMappingEnabled, s.hueSaturationEnabled, s.hue, s.saturation,
       s.depthOfFieldEnabled, s.focusDistance, s.focalLength, s.bokehScale,
       s.colorAverageEnabled, s.pixelationEnabled, s.pixelationGranularity,
       s.dotScreenEnabled, s.dotScreenScale >>

\* the dependency array of useMemo
MemoDeps(s) ==
    << s.smaaEnabled, s.bloomEnabled, s.bloomIntensity, s.bloomThreshold,
       s.vignetteEnabled, s.vignetteOffset, s.vignetteDarkness,
       s.toneMappingEnabled, s.hueSaturationEnabled, s.hue, s.saturation,
       s.depthOfFieldEnabled, s.focusDistance, s.focalLength, s.bokehScale,
       s.colorAverageEnabled, s.pixelationEnabled, s.pixelationGranularity,
       s.dotScreenEnabled, s.dotScreenScale >>

\* useMemo: the stored list is kept while every dependency is unchanged
UseMemo(s, deps, stored) == IF MemoDeps(s) = deps THEN stored ELSE BuildEffects(s)

\* the value PostEffects returns for an effect list
Returned(list) ==
    IF Len(list) = 0 THEN [mounted |-> FALSE, children |-> <<>>]
    ELSE [mounted |-> TRUE, children |-> list]

\* one render of PostEffects with the current settings.postEffects
Render ==
    /\ effects' = UseMemo(postEffects, memoDeps, effects)
    /\ memoDeps' = MemoDeps(postEffects)
    /\ composer' = Returned(effects')
    /\ pending' = 0
    /\ UNCHANGED <<postEffects, edits>>
    /\ UNCHANGED deformVars
    /\ UNCHANGED appVars

(***************************************************************************)
(* useModelViewer: the operations that change settings.postEffects         *)
(***************************************************************************)
CanEdit == edits < MaxEdits /\ pending < MaxPending

Edited == edits' = edits + 1 /\ pending' = pending + 1

\* togglePostEffect(key): the flag is replaced by its negation
togglePostEffect(key) ==
    /\ CanEdit
    /\ postEffects' = Spread(postEffects, key, ~Truthy(postEffects, key))
    /\ Edited
    /\ UNCHANGED <<memoDeps, effects, composer>>
    /\ UNCHANGED deformVars
    /\ UNCHANGED appVars

\* updatePostEffectSetting(key, value)
updatePostEffectSetting(key, value) ==
    /\ CanEdit
    /\ postEffects' = Spread(postEffects, key, value)
    /\ Edited
    /\ UNCHANGED <<memoDeps, effects, composer>>
    /\ UNCHANGED deformVars
    /\ UNCHANGED appVars

\* resetSettings(): back to the default constant
resetSettings ==
    /\ CanEdit
    /\ postEffects' = DEFAULT_POST_EFFECT_SETTINGS
    /\ viewer' = DEFAULT_VIEWER_SETTINGS
    /\ Edited
    /\ UNCHANGED <<memoDeps, effects, composer>>
    /\ UNCHANGED deformVars
    /\ UNCHANGED <<closure, issued, io, loader>>

\* settings files offered to the import: every flag on, every flag off
ImportedFile(b) ==
    [f \in (DOMAIN DEFAULT_POST_EFFECT_SETTINGS) \cup POST_EFFECT_BOOLEAN_KEYS
              \cup POST_EFFECT_NUMBER_KEYS |->
        IF f \in POST_EFFECT_BOOLEAN_KEYS THEN b
        ELSE IF f \in DOMAIN DEFAULT_POST_EFFECT_SETTINGS
             THEN DEFAULT_POST_EFFECT_SETTINGS[f]
             ELSE CHOOSE v \in SliderValues(f) : \A w \in SliderValues(f) : v <= w]

ImportFiles == { ImportedFile(TRUE), ImportedFile(FALSE) }

\* replaceSettings(imported): the whole record is replaced
replaceSettings(imported) ==
    /\ CanEdit
    /\ postEffects' = imported.postEffects
    /\ viewer' = imported.viewer
    /\ Edited
    /\ UNCHANGED <<memoDeps, effects, composer>>
    /\ UNCHANGED deformVars
    /\ UNCHANGED <<closure, issued, io, loader>>

(***************************************************************************)
(* Specification of the effect chain                                       *)
(***************************************************************************)
InitSettings ==
    /\ postEffects = DEFAULT_POST_EFFECT_SETTINGS
    /\ pending = 0
    /\ edits = 0
    /\ memoDeps = MemoDeps(DEFAULT_POST_EFFECT_SETTINGS)
    /\ effects = BuildEffects(DEFAULT_POST_EFFECT_SETTINGS)
    /\ composer = Returned(BuildEffects(DEFAULT_POST_EFFECT_SETTINGS))

NextFx ==
    \/ \E key \in POST_EFFECT_BOOLEAN_KEYS : togglePostEffect(key)
    \/ \E key \in POST_EFFECT_NUMBER_KEYS \cup POST_EFFECT_TUPLE_KEYS :
          \E value \in SliderValues(key) : updatePostEffectSetting(key, value)
    \/ resetSettings
    \/ \E imported \in ImportFiles :
          replaceSettings(ViewerSettings(DEFAULT_VIEWER_SETTINGS, imported))
    \/ Render

(***************************************************************************)
(* Deformation amplitude controller                                        *)
(***************************************************************************)
\* longest elapsed time explored, in milliseconds
MaxTime == 8000
\* trigger() calls explored between two frames
MaxBurst == 2
\* material slots of an external model, over all its meshes
MaxMaterials == 2
\* model objects the loader creates one after another
MaxModels == 2

\* deltaTime values of a frame, in milliseconds
Deltas == {0, 250, 1000}

\* useDeformAmplitude
DEFAULT_MAX_AMPLITUDE == 80000
DEFAULT_DECAY_SPEED == 12
AMPLITUDE_THRESHOLD == 100

\* useModelDeform
MAX_AMPLITUDE == 7000
DECAY_SPEED == 30
NOISE_FREQUENCY == 2400

\* useRippleEffect
RIPPLE_MAX_AMPLITUDE == 80000
RIPPLE_DECAY_SPEED == 12

\* "sphere": DeformSphere with useSphereDeform; "model": ExternalModel with
\* useModelDeform; "ripple": the sphere driven by useRippleEffect
Targets == {"sphere", "model", "ripple"}

\* the options each hook passes to useDeformAmplitude
maxAmplitude(tg) == IF tg = "model" THEN MAX_AMPLITUDE ELSE DEFAULT_MAX_AMPLITUDE

decaySpeed(tg) == IF tg = "model" THEN DECAY_SPEED ELSE DEFAULT_DECAY_SPEED

\* the sum 1 + x + x^2/2! + ... in ten-thousandths; x is in ten-thousandths
RECURSIVE ExpSeries(_, _, _)
ExpSeries(x, term, n) ==
    IF term = 0 THEN 0
    ELSE term + ExpSeries(x, (term * x + n * 5000) \div (n * 10000), n + 1)

\* Math.exp(-delta * speed) in ten-thousandths, rounded to nearest
MathExpNeg(delta, speed) ==
    (10000 * 10000 + ExpSeries(delta * speed, 10000, 1) \div 2)
        \div ExpSeries(delta * speed, 10000, 1)

\* a decay that grows with the deltaTime
DecayedGrowing(amp, delta, speed) == amp + delta

\* a decay by a fixed factor per frame, whatever the deltaTime
DecayedPerFrame(amp, delta, speed) == (amp * 9500 + 5000) \div 10000

\* a decay that subtracts delta * speed instead of multiplying
DecayedLinear(amp, delta, speed) == amp - delta * speed

\* amp *= Math.exp(-delta * speed), rounded to nearest
Decayed(amp, delta, speed) == (amp * MathExpNeg(delta, speed) + 5000) \div 10000

\* a frame callback that clamps to the threshold instead of resetting
AmplitudeAfterFrameFloor(amp, delta, speed) ==
    IF amp > AMPLITUDE_THRESHOLD
    THEN (amp * MathExpNeg(delta, speed) + 5000) \div 10000
    ELSE AMPLITUDE_THRESHOLD

\* a frame callback that stops decaying at the threshold and never resets
AmplitudeAfterFrameHold(amp, delta, speed) ==
    IF amp > AMPLITUDE_THRESHOLD
    THEN (amp * MathExpNeg(delta, speed) + 5000) \div 10000
    ELSE amp

\* a frame callback without the reset branch
AmplitudeAfterFrameNoReset(amp, delta, speed) ==
    (amp * MathExpNeg(delta, speed) + 5000) \div 10000

\* the amplitude update of the frame callback of useDeformAmplitude
AmplitudeAfterFrame(amp, delta, speed) ==
    IF amp > AMPLITUDE_THRESHOLD THEN Decayed(amp, delta, speed) ELSE 0

\* the amplitude update of the frame callback of useRippleEffect
RippleAmplitudeAfterFrame(amp, delta) ==
    IF amp > 100 THEN Decayed(amp, delta, RIPPLE_DECAY_SPEED) ELSE 0

\* uniforms created for the mounted object
SphereUniforms == << [uTime |-> 0, uAmplitude |-> 0] >>

\* the material instances a loaded model can hold, named by the vertex
\* shader three.js gives them: a built-in one, or a custom one
MaterialNames == {"standard", "custom"}

\* the material slots met by model.traverse, mesh after mesh; a name that
\* occurs twice is one material instance used twice
SlotLists == UNION { [1..n -> MaterialNames] : n \in 1..MaxMaterials }

\* the id-th Group object created by the loader
Group(id, slots) == [id |-> id, materials |-> slots]

Models == { Group(id, slots) : id \in 1..MaxModels, slots \in SlotLists }

\* model = null
NoModel == [id |-> 0, materials |-> << >>]

Range(seq) == { seq[i] : i \in DOMAIN seq }

\* uniformsList as the effect of useModelDeform builds it: one record is
\* pushed for every material slot; the fields model and slot stand for the
\* identity of the record object
ModelUniforms(m) ==
    [i \in DOMAIN m.materials |->
        [uDeformTime |-> 0, uDeformAmplitude |-> 0,
         uDeformFrequency |-> NOISE_FREQUENCY, model |-> m.id, slot |-> i]]

\* the frame callbacks that copy the controller's values into the uniforms
SphereUpload(list, t, amp) ==
    [i \in DOMAIN list |-> [list[i] EXCEPT !.uTime = t, !.uAmplitude = amp]]

ModelUpload(list, t, amp) ==
    [i \in DOMAIN list |->
        [list[i] EXCEPT !.uDeformTime = t, !.uDeformAmplitude = amp]]

Upload(tg, list, t, amp) ==
    IF tg = "model" THEN ModelUpload(list, t, amp) ELSE SphereUpload(list, t, amp)

Burst == IF last.op = "trigger" THEN last.count ELSE 0

\* a trigger that adds the impulse to the current amplitude
triggerDeformAdding ==
    /\ target \in {"sphere", "model"}
    /\ Burst < MaxBurst
    /\ amplitude' = amplitude + maxAmplitude(target)
    /\ last' = [op |-> "trigger", delta |-> 0, before |-> amplitude,
                count |-> Burst + 1]
    /\ elapsed' = 0
    /\ UNCHANGED <<target, time, uniforms>>
    /\ UNCHANGED sceneVars
    /\ UNCHANGED fxVars
    /\ UNCHANGED appVars

\* triggerDeform of useDeformAmplitude
triggerDeform ==
    /\ target \in {"sphere", "model"}
    /\ Burst < MaxBurst
    /\ amplitude' = maxAmplitude(target)
    /\ last' = [op |-> "trigger", delta |-> 0, before |-> amplitude,
                count |-> Burst + 1]
    /\ elapsed' = 0
    /\ UNCHANGED <<target, time, uniforms>>
    /\ UNCHANGED sceneVars
    /\ UNCHANGED fxVars
    /\ UNCHANGED appVars

\* triggerDeform of useRippleEffect
rippleTriggerDeform ==
    /\ target = "ripple"
    /\ Burst < MaxBurst
    /\ amplitude' = RIPPLE_MAX_AMPLITUDE
    /\ last' = [op |-> "trigger", delta |-> 0, before |-> amplitude,
                count |-> Burst + 1]
    /\ elapsed' = 0
    /\ UNCHANGED <<target, time, uniforms>>
    /\ UNCHANGED sceneVars
    /\ UNCHANGED fxVars
    /\ UNCHANGED appVars

\* a frame whose upload runs before the decay
useFrameUploadFirst(delta) ==
    /\ target \in {"sphere", "model"}
    /\ time + delta <= MaxTime
    /\ time' = time + delta
    /\ amplitude' = IF amplitude > AMPLITUDE_THRESHOLD
                    THEN (amplitude * MathExpNeg(delta, decaySpeed(target)) + 5000)
                            \div 10000
                    ELSE 0
    /\ uniforms' = IF target = "model"
                   THEN [i \in DOMAIN uniforms |->
                           [uniforms[i] EXCEPT !.uDeformTime = time,
                                               !.uDeformAmplitude = amplitude]]
                   ELSE [i \in DOMAIN uniforms |->
                           [uniforms[i] EXCEPT !.uTime = time,
                                               !.uAmplitude = amplitude]]
    /\ last' = [op |-> "frame", delta |-> delta, before |-> amplitude,
                count |-> 0]
    /\ elapsed' = IF amplitude' > 0 THEN elapsed + delta ELSE 0
    /\ UNCHANGED target
    /\ UNCHANGED sceneVars
    /\ UNCHANGED fxVars
    /\ UNCHANGED appVars

\* a frame that advances the time only while the amplitude is decaying
useFrameIdleSkipsTime(delta) ==
    /\ target \in {"sphere", "model"}
    /\ time + delta <= MaxTime
    /\ time' = IF amplitude > AMPLITUDE_THRESHOLD THEN time + delta ELSE time
    /\ amplitude' = IF amplitude > AMPLITUDE_THRESHOLD
                    THEN (amplitude * MathExpNeg(delta, decaySpeed(target)) + 5000)
                            \div 10000
                    ELSE 0
    /\ uniforms' = IF target = "model"
                   THEN [i \in DOMAIN uniforms |->
                           [uniforms[i] EXCEPT !.uDeformTime = time',
                                               !.uDeformAmplitude = amplitude']]
                   ELSE [i \in DOMAIN uniforms |->
                           [uniforms[i] EXCEPT !.uTime = time',
                                               !.uAmplitude = amplitude']]
    /\ last' = [op |-> "frame", delta |-> delta, before |-> amplitude,
                count |-> 0]
    /\ elapsed' = IF amplitude' > 0 THEN elapsed + delta ELSE 0
    /\ UNCHANGED target
    /\ UNCHANGED sceneVars
    /\ UNCHANGED fxVars
    /\ UNCHANGED appVars

\* one frame of the render loop for an object driven by useDeformAmplitude:
\* the callback of useDeformAmplitude, then the upload of the owning hook
useFrame(delta) ==
    /\ target \in {"sphere", "model"}
    /\ time + delta <= MaxTime
    /\ time' = time + delta
    /\ amplitude' = AmplitudeAfterFrame(amplitude, delta, decaySpeed(target))
    /\ uniforms' = Upload(target, uniforms, time', amplitude')
    /\ last' = [op |-> "frame", delta |-> delta, before |-> amplitude,
                count |-> 0]
    /\ elapsed' = IF amplitude' > 0 THEN elapsed + delta ELSE 0
    /\ UNCHANGED target
    /\ UNCHANGED sceneVars
    /\ UNCHANGED fxVars
    /\ UNCHANGED appVars

\* one frame of the render loop for the sphere driven by useRippleEffect
rippleUseFrame(delta) ==
    /\ target = "ripple"
    /\ time + delta <= MaxTime
    /\ time' = time + delta
    /\ amplitude' = RippleAmplitudeAfterFrame(amplitude, delta)
    /\ uniforms' = SphereUpload(uniforms, time', amplitude')
    /\ last' = [op |-> "frame", delta |-> delta, before |-> amplitude,
                count |-> 0]
    /\ elapsed' = IF amplitude' > 0 THEN elapsed + delta ELSE 0
    /\ UNCHANGED target
    /\ UNCHANGED sceneVars
    /\ UNCHANGED fxVars
    /\ UNCHANGED appVars

(***************************************************************************)
(* Shader injection of useModelDeform                                      *)
(*                                                                         *)
(* A shader text is the sequence of its chunks.                            *)
(***************************************************************************)
BEGIN_VERTEX == "#include <begin_vertex>"

DEFORM_UNIFORMS_GLSL ==
    "uniform float uDeformTime; uniform float uDeformAmplitude; uniform float uDeformFrequency;"

DEFORM_VERTEX_GLSL ==
    "vec3 transformed = vec3(position); float dn1 = snoise_d(transformed * uDeformFrequency + uDeformTime * 0.8) * 0.7; float dn2 = snoise_d(transformed * uDeformFrequency * 1.5 - uDeformTime * 0.5) * 0.3; float deformDisp = (dn1 + dn2) * uDeformAmplitude; transformed += normal * deformDisp;"

SIMPLEX_NOISE_GLSL_INJECTED == "float snoise_d(vec3 v)"

DeformUniformNames == {"uDeformTime", "uDeformAmplitude", "uDeformFrequency"}

\* the vertex shader the renderer hands to the compile hook of a material
VertexShaderOf(k) ==
    IF k = "standard"
    THEN << "#include <common>", "void main() {", BEGIN_VERTEX,
            "#include <project_vertex>", "}" >>
    ELSE << "void main() {",
            "gl_Position = projectionMatrix * modelViewMatrix * vec4(position, 1.0);",
            "}" >>

\* the value holder of an uniform: the field name of an uniform record, or
\* (slot 0) an uniform the material had before
Holder(mid, slot, name) == [model |-> mid, slot |-> slot, name |-> name]

\* the shader object the renderer hands to the compile hook
ShaderOf(mid, k) ==
    [uniforms |-> [n \in {"diffuse"} |-> Holder(mid, 0, n)],
     vertexShader |-> VertexShaderOf(k)]

\* a replace that appends the replacement when the pattern is missing
RECURSIVE replaceOrAppend(_, _, _)
replaceOrAppend(text, pattern, replacement) ==
    IF text = << >> THEN << replacement >>
    ELSE IF Head(text) = pattern THEN << replacement >> \o Tail(text)
    ELSE << Head(text) >> \o replaceOrAppend(Tail(text), pattern, replacement)

\* String.prototype.replace with a string pattern: the first occurrence
RECURSIVE replace(_, _, _)
replace(text, pattern, replacement) ==
    IF text = << >> THEN << >>
    ELSE IF Head(text) = pattern THEN << replacement >> \o Tail(text)
    ELSE << Head(text) >> \o replace(Tail(text), pattern, replacement)

\* a hook that patches the marker first and puts the declarations last
onBeforeCompileAppending(deformUniforms, shader) ==
    [uniforms |->
        [n \in DOMAIN shader.uniforms \cup DeformUniformNames |->
            IF n \in DeformUniformNames
            THEN Holder(deformUniforms.model, deformUniforms.slot, n)
            ELSE shader.uniforms[n]],
     vertexShader |->
        replace(shader.vertexShader, BEGIN_VERTEX, DEFORM_VERTEX_GLSL)
            \o << "\n", SIMPLEX_NOISE_GLSL_INJECTED, "\n",
                  DEFORM_UNIFORMS_GLSL >>]

\* mat.onBeforeCompile as the effect installs it; deformUniforms is the
\* record the closure holds
onBeforeCompile(deformUniforms, shader) ==
    [uniforms |->
        [n \in DOMAIN shader.uniforms \cup DeformUniformNames |->
            IF n \in DeformUniformNames
            THEN Holder(deformUniforms.model, deformUniforms.slot, n)
            ELSE shader.uniforms[n]],
     vertexShader |->
        replace(<< DEFORM_UNIFORMS_GLSL, "\n", SIMPLEX_NOISE_GLSL_INJECTED,
                   "\n" >> \o shader.vertexShader,
                BEGIN_VERTEX, DEFORM_VERTEX_GLSL)]

\* the slot whose record the hook of material k holds: forEach assigns
\* mat.onBeforeCompile slot after slot, and the last assignment stays
HookSlot(m, k) ==
    CHOOSE i \in DOMAIN m.materials :
        /\ m.materials[i] = k
        /\ \A j \in DOMAIN m.materials : m.materials[j] = k => j <= i

\* the materials of model m after the effect has traversed it
Injected(m) ==
    [k \in Range(m.materials) |->
        [needsUpdate |-> TRUE, hook |-> HookSlot(m, k), compiled |-> FALSE,
         shader |-> ShaderOf(m.id, k)]]

\* uniformsListRef.current after the effect ran for model m
uniformsListAfterEffect(m, list) == IF m = NoModel THEN list ELSE ModelUniforms(m)

\* ExternalModel renders with another model: the refs of useDeformAmplitude
\* and uniformsListRef stay, and the effect of useModelDeform runs for m
renderWithModel(m) ==
    /\ target = "model"
    /\ m # model
    /\ m = NoModel \/ m.id = loaded + 1
    /\ model' = m
    /\ loaded' = IF m = NoModel THEN loaded ELSE m.id
    /\ uniforms' = uniformsListAfterEffect(m, uniforms)
    /\ materials' = Injected(m)
    /\ last' = [op |-> "render", delta |-> 0, before |-> amplitude,
                count |-> 0]
    /\ UNCHANGED <<target, amplitude, time, elapsed>>
    /\ UNCHANGED fxVars
    /\ UNCHANGED appVars

\* the renderer compiles the flagged material k and runs its hook
compile(k) ==
    /\ target = "model"
    /\ k \in DOMAIN materials
    /\ materials[k].needsUpdate
    /\ materials' =
          [materials EXCEPT ![k] =
              [needsUpdate |-> FALSE, hook |-> @.hook, compiled |-> TRUE,
               shader |-> onBeforeCompile(uniforms[@.hook],
                                          ShaderOf(model.id, k))]]
    /\ last' = [op |-> "compile", delta |-> 0, before |-> amplitude,
                count |-> 0]
    /\ UNCHANGED <<target, amplitude, time, elapsed, uniforms, model, loaded>>
    /\ UNCHANGED fxVars
    /\ UNCHANGED appVars

\* the state of the hooks when the object tg is mounted; m is the model
\* given to useModelDeform, NoModel for the spheres
Mounted(tg, list, m) ==
    /\ target = tg
    /\ amplitude = 0
    /\ time = 0
    /\ elapsed = 0
    /\ uniforms = list
    /\ model = m
    /\ loaded = m.id
    /\ materials = Injected(m)
    /\ last = [op |-> "mount", delta |-> 0, before |-> 0, count |-> 0]

(***************************************************************************)
(* useModelViewer: the operations on the top-level fields of settings      *)
(***************************************************************************)
\* the path of each entry of HDRI_LIST; entry i of the source is element i + 1
HDRI_LIST == << "/hdri/hdri-0.hdr", "/hdri/hdri-1.hdr", "/hdri/hdri-2.hdr" >>

Min(a, b) == IF a <= b THEN a ELSE b

Max(a, b) == IF a >= b THEN a ELSE b

\* useEnvironment without the fallback for an index that has no entry
hdriPathNoFallback(top) ==
    IF top.hdriIndex \in 0..(Len(HDRI_LIST) - 1)
    THEN HDRI_LIST[top.hdriIndex + 1]
    ELSE "undefined"
\* useEnvironment: HDRI_LIST[hdriIndex]?.path ?? HDRI_LIST[0].path
hdriPath(top) ==
    IF top.hdriIndex \in 0..(Len(HDRI_LIST) - 1)
    THEN HDRI_LIST[top.hdriIndex + 1]
    ELSE HDRI_LIST[1]

\* what one render of ModelViewer captures: the settings its handlers close
\* over and the path useEnvironment computed
Captured(top, pe) ==
    [viewer |-> top, postEffects |-> pe, hdriPath |-> hdriPath(top)]

\* setSettings(...): one state update of useModelViewer; call is the record
\* of it kept until the next render
setSettings(top, pe, call) ==
    /\ CanEdit
    /\ viewer' = top
    /\ postEffects' = pe
    /\ issued' = Append(issued, call)
    /\ Edited
    /\ UNCHANGED <<memoDeps, effects, composer>>
    /\ UNCHANGED deformVars
    /\ UNCHANGED <<closure, loader>>

\* an updateSetting that spreads the settings of the last render
updateSettingFromRender(key, value) ==
    /\ setSettings(Spread(closure.viewer, key, value), postEffects,
                   [op |-> "set", key |-> key, value |-> value])
    /\ UNCHANGED io
\* updateSetting(key, value): setSettings(prev => ({ ...prev, [key]: value }))
updateSetting(key, value) ==
    /\ setSettings(Spread(viewer, key, value), postEffects,
                   [op |-> "set", key |-> key, value |-> value])
    /\ UNCHANGED io

\* setSettings(prev => ({ ...prev, [key]: !prev[key] }))
Toggle(key) ==
    /\ setSettings(Spread(viewer, key, ~viewer[key]), postEffects,
                   [op |-> "toggle", key |-> key, value |-> ~viewer[key]])
    /\ UNCHANGED io

toggleWireframe == Toggle("wireframe")

toggleGrid == Toggle("showGrid")

toggleAxes == Toggle("showAxes")

toggleAutoRotate == Toggle("autoRotate")

toggleHdri == Toggle("hdriEnabled")

toggleDirectionalLight == Toggle("directionalLightEnabled")

setBackgroundColor(color) == updateSetting("backgroundColor", color)

setLightAzimuth(value) == updateSetting("lightAzimuth", value)

setLightElevation(value) == updateSetting("lightElevation", value)

setLightDistance(value) == updateSetting("lightDistance", value)

\* the index is clamped into the range of HDRI_LIST
setHdriIndex(index) ==
    updateSetting("hdriIndex", Max(0, Min(index, Len(HDRI_LIST) - 1)))

setHdriRotation(value) == updateSetting("hdriRotation", value)

setHdriIntensity(value) == updateSetting("hdriIntensity", value)

setDirectionalLightColor(color) == updateSetting("directionalLightColor", color)

setDirectionalLightIntensity(value) ==
    updateSetting("directionalLightIntensity", value)

\* values the controls of the panel pass to the setters
Colors == { "#000000" }

Angles == { 90000 }

Distances == { 20000 }

Intensities == { 2000 }

\* indices requested from setHdriIndex
HdriIndices == { -1, 1, 5 }

(***************************************************************************)
(* The glitch sliders of the control panel                                 *)
(***************************************************************************)
\* values a slider of a [min, max] tuple can give to its element
TupleSliderValues(key, index) ==
    CASE key = "glitchDelay"    -> IF index = 0 THEN {1000} ELSE {4000}
      [] key = "glitchDuration" -> IF index = 0 THEN {500} ELSE {2000}
      [] key = "glitchStrength" -> IF index = 0 THEN {200} ELSE {1500}

\* createTupleSlider(...).onChange(v): the other element is read from the
\* postEffects the panel was rendered with, and the new tuple is handed to
\* handlers.onUpdatePostEffectSetting
tupleSliderChange(key, index, v) ==
    LET current == closure.postEffects[key]
        newValue == IF index = 0 THEN <<v, current[2]>> ELSE <<current[1], v>>
    IN  /\ setSettings(viewer, Spread(postEffects, key, newValue),
                       [op |-> "set", key |-> key, value |-> newValue,
                        index |-> index, v |-> v])
        /\ UNCHANGED io

\* one render of ModelViewer and of the components below it
renderViewer ==
    /\ effects' = UseMemo(postEffects, memoDeps, effects)
    /\ memoDeps' = MemoDeps(postEffects)
    /\ composer' = Returned(effects')
    /\ pending' = 0
    /\ closure' = Captured(viewer, postEffects)
    /\ issued' = << >>
    /\ UNCHANGED <<postEffects, edits, viewer, io, loader>>
    /\ UNCHANGED deformVars

(***************************************************************************)
(* JSON values                                                             *)
(***************************************************************************)
JBoolean(b) == [t |-> "boolean", b |-> b]

JNumber(n) == [t |-> "number", n |-> n]

JString(s) == [t |-> "string", s |-> s]

JNull == [t |-> "null"]

JArray(seq) == [t |-> "array", a |-> seq]

JObject(fields) == [t |-> "object", o |-> fields]

\* the value of a property the object does not have
Undefined == [t |-> "undefined"]

\* typeof x
TypeOf(x) == IF x.t \in {"null", "array", "object"} THEN "object" ELSE x.t

\* obj[key]
Get(obj, key) ==
    IF obj.t = "object" /\ key \in DOMAIN obj.o THEN obj.o[key] ELSE Undefined

(***************************************************************************)
(* useSettingsIO: validation                                               *)
(***************************************************************************)
VIEWER_BOOLEAN_KEYS ==
    { "wireframe", "showGrid", "showAxes", "autoRotate",
      "directionalLightEnabled", "hdriEnabled" }

VIEWER_STRING_KEYS == { "backgroundColor", "directionalLightColor" }

VIEWER_NUMBER_KEYS ==
    { "lightAzimuth", "lightElevation", "lightDistance",
      "directionalLightIntensity", "hdriIndex", "hdriRotation",
      "hdriIntensity" }

isValidPostEffectSettings(obj) ==
    /\ TypeOf(obj) = "object"
    /\ obj.t # "null"
    /\ \A key \in POST_EFFECT_BOOLEAN_KEYS : TypeOf(Get(obj, key)) = "boolean"
    /\ \A key \in POST_EFFECT_NUMBER_KEYS : TypeOf(Get(obj, key)) = "number"
    /\ \A key \in POST_EFFECT_TUPLE_KEYS :
          LET arr == Get(obj, key)
          IN  /\ arr.t = "array"
              /\ Len(arr.a) = 2
              /\ TypeOf(arr.a[1]) = "number"
              /\ TypeOf(arr.a[2]) = "number"

isValidViewerSettings(obj) ==
    /\ TypeOf(obj) = "object"
    /\ obj.t # "null"
    /\ \A key \in VIEWER_BOOLEAN_KEYS : TypeOf(Get(obj, key)) = "boolean"
    /\ \A key \in VIEWER_STRING_KEYS : TypeOf(Get(obj, key)) = "string"
    /\ \A key \in VIEWER_NUMBER_KEYS : TypeOf(Get(obj, key)) = "number"
    /\ LET mode == Get(obj, "backgroundMode")
       IN  mode.t = "string" /\ mode.s \in {"color", "hdri"}
    /\ isValidPostEffectSettings(Get(obj, "postEffects"))

isValidExportData(obj) ==
    /\ TypeOf(obj) = "object"
    /\ obj.t # "null"
    /\ TypeOf(Get(obj, "version")) = "string"
    /\ TypeOf(Get(obj, "exportedAt")) = "string"
    /\ isValidViewerSettings(Get(obj, "settings"))

(***************************************************************************)
(* useSettingsIO: export and import                                        *)
(***************************************************************************)
EXPORT_VERSION == "1.0"

\* export and import operations explored
MaxIO == 2

\* JSON.stringify of settings.postEffects
PostEffectsJSON(pe) ==
    JObject([f \in DOMAIN pe |->
        IF f \in POST_EFFECT_BOOLEAN_KEYS THEN JBoolean(pe[f])
        ELSE IF f \in POST_EFFECT_TUPLE_KEYS
             THEN JArray(<<JNumber(pe[f][1]), JNumber(pe[f][2])>>)
             ELSE JNumber(pe[f])])

\* JSON.stringify of a ViewerSettings value
SettingsJSON(s) ==
    JObject([f \in (DOMAIN s.viewer) \cup {"postEffects"} |->
        IF f = "postEffects" THEN PostEffectsJSON(s.postEffects)
        ELSE IF f \in VIEWER_BOOLEAN_KEYS THEN JBoolean(s.viewer[f])
        ELSE IF f \in VIEWER_NUMBER_KEYS THEN JNumber(s.viewer[f])
        ELSE JString(s.viewer[f])])

\* the content of the file exportSettings writes for the settings s
ExportFile(s) ==
    [text |-> "json",
     value |-> JObject([version |-> JString(EXPORT_VERSION),
                        exportedAt |-> JString("toISOString"),
                        settings |-> SettingsJSON(s)])]

\* the JavaScript value of a parsed JSON value
RECURSIVE FromJSON(_)
FromJSON(j) ==
    CASE j.t = "object"  -> [f \in DOMAIN j.o |-> FromJSON(j.o[f])]
      [] j.t = "array"   -> [i \in 1..Len(j.a) |-> FromJSON(j.a[i])]
      [] j.t = "boolean" -> j.b
      [] j.t = "number"  -> j.n
      [] j.t = "string"  -> j.s

\* the ViewerSettings value handed to onImport for a parsed settings object
ParsedSettings(j) ==
    LET obj == FromJSON(j)
    IN  ViewerSettings([f \in (DOMAIN obj) \ {"postEffects"} |-> obj[f]],
                       obj.postEffects)

\* what the last export or import did
IOResult(n, op, file, onError, imported, report, message) ==
    [n |-> n, op |-> op, file |-> file, onError |-> onError,
     imported |-> imported, report |-> report, message |-> message]

NoFile == [text |-> "none"]

\* exportSettings(): the settings captured at the last render are written
exportSettings ==
    /\ io.n < MaxIO
    /\ io' = IOResult(io.n + 1, "export",
                      ExportFile(ViewerSettings(closure.viewer,
                                                closure.postEffects)),
                      FALSE, FALSE, "none", "")
    /\ UNCHANGED fxVars
    /\ UNCHANGED deformVars
    /\ UNCHANGED <<viewer, closure, issued, loader>>

\* the report of a failure: onError(message) when the callback was given,
\* console.error and alert(message) otherwise
Reported(onError) == IF onError THEN "onError" ELSE "alert"

\* the import fails and leaves the settings alone
importFails(content, onError, message) ==
    /\ io' = IOResult(io.n + 1, "import", content, onError, FALSE,
                      Reported(onError), message)
    /\ UNCHANGED fxVars
    /\ UNCHANGED deformVars
    /\ UNCHANGED <<viewer, closure, issued, loader>>

\* onImport(parsed.settings), where onImport is replaceSettings
importSucceeds(content, onError) ==
    LET imported == ParsedSettings(Get(content.value, "settings"))
    IN  /\ setSettings(imported.viewer, imported.postEffects,
                       [op |-> "replace", key |-> "", value |-> imported])
        /\ io' = IOResult(io.n + 1, "import", content, onError, TRUE, "none",
                          "")

\* an import that validates the settings of the file only
handleFileChangeUnchecked(content, onError) ==
    /\ io.n < MaxIO
    /\ IF content.text = "unreadable"
       THEN importFails(content, onError, "FileReader error")
       ELSE IF content.text # "json"
       THEN importFails(content, onError, "SyntaxError")
       ELSE IF ~isValidViewerSettings(Get(content.value, "settings"))
       THEN importFails(content, onError, "invalid file format")
       ELSE importSucceeds(content, onError)
\* handleFileChange: reader.onload and reader.onerror for the selected file
handleFileChange(content, onError) ==
    /\ io.n < MaxIO
    /\ IF content.text = "unreadable"
       THEN importFails(content, onError, "FileReader error")
       ELSE IF content.text # "json"
       THEN importFails(content, onError, "SyntaxError")
       ELSE IF ~isValidExportData(content.value)
       THEN importFails(content, onError, "invalid file format")
       ELSE importSucceeds(content, onError)

\* a complete settings file whose hdriIndex is index and whose flags are b
SettingsFile(index, b) ==
    ExportFile(ViewerSettings(Spread(DEFAULT_VIEWER_SETTINGS, "hdriIndex", index),
                              ImportedFile(b)))

\* the exported form of x with the property key of its settings replaced
WithSetting(file, key, j) ==
    [file EXCEPT !.value.o.settings.o =
        [f \in (DOMAIN @) \cup {key} |-> IF f = key THEN j ELSE @[f]]]

\* file contents offered to the import
FileContents ==
    { [text |-> "unreadable"],
      [text |-> "not json"],
      [text |-> "json", value |-> JNull],
      [text |-> "json", value |-> JNumber(42)],
      [text |-> "json", value |-> JArray(<< >>)],
      [text |-> "json", value |-> JObject([version |-> JString(EXPORT_VERSION)])],
      [text |-> "json",
       value |-> JObject([version |-> JNumber(1),
                          exportedAt |-> JString("toISOString"),
                          settings |-> SettingsFile(0, TRUE).value.o.settings])],
      WithSetting(SettingsFile(0, TRUE), "wireframe", JString("yes")),
      WithSetting(SettingsFile(0, TRUE), "backgroundMode", JString("image")),
      WithSetting(SettingsFile(0, TRUE), "postEffects",
                  PostEffectsJSON(DEFAULT_POST_EFFECT_SETTINGS)),
      WithSetting(SettingsFile(0, TRUE), "postEffects",
                  [PostEffectsJSON(ImportedFile(TRUE)) EXCEPT !.o.glitchDelay =
                      JArray(<<JNumber(1500), JNumber(2500), JNumber(3500)>>)]),
      SettingsFile(0, TRUE),
      SettingsFile(1, FALSE),
      SettingsFile(7, FALSE),
      SettingsFile(-1, TRUE) }

\* the files the user can select: the offered ones and the last exported one
Selectable ==
    FileContents \cup (IF io.op = "export" THEN {io.file} ELSE {})

(***************************************************************************)
(* useModelLoader                                                          *)
(* A dropped file is numbered by its drop; the object URL created for it   *)
(* and the object loaded from it carry the same number.  The drag counter, *)
(* which only drives the drop overlay, is left out.                        *)
(***************************************************************************)
\* files dropped on the viewer
MaxDrops == 3

SUPPORTED_EXTENSIONS == { "fbx", "glb", "gltf" }

\* extensions of the dropped files
Extensions == { "glb", "txt" }

\* getModelType, applied to the extension of the file name
getModelType(ext) ==
    IF ext = "fbx" THEN "fbx"
    ELSE IF ext \in {"glb", "gltf"} THEN "gltf"
    ELSE "null"

\* loadedModel === null
NoLoadedModel == [url |-> 0, name |-> 0]

\* the state of the hook when it is mounted
LoaderMounted ==
    [ loadedModel |-> NoLoadedModel, modelObject |-> 0, isLoading |-> FALSE,
      error |-> "", committed |-> NoLoadedModel, mounted |-> TRUE,
      inflight |-> {}, created |-> {}, revoked |-> {}, succeeded |-> {},
      drops |-> 0,
      lastDrop |-> 0, lastOp |-> [op |-> "mount", id |-> 0, ok |-> TRUE] ]

\* URL.revokeObjectURL(m.url) when m?.url is set
Revoked(m) == IF m.url # 0 THEN loader.revoked \cup {m.url} ELSE loader.revoked

LoaderStep(next) ==
    /\ loader' = next
    /\ UNCHANGED fxVars
    /\ UNCHANGED deformVars
    /\ UNCHANGED <<viewer, closure, issued, io>>

\* the start of loadModelFile(file), up to the await of loader.loadAsync(url)
loadModelFile(id, ext) ==
    IF getModelType(ext) = "null"
    THEN [loader EXCEPT !.error = "unsupported", !.drops = id,
                        !.lastOp = [op |-> "drop", id |-> id, ok |-> FALSE]]
    ELSE [loader EXCEPT !.isLoading = TRUE, !.error = "",
                        !.created = @ \cup {id}, !.inflight = @ \cup {id},
                        !.drops = id, !.lastDrop = id,
                        !.lastOp = [op |-> "drop", id |-> id, ok |-> TRUE]]

\* handleDrop(e) with one file in e.dataTransfer.files
handleDrop(ext) ==
    /\ loader.mounted
    /\ loader.drops < MaxDrops
    /\ LET id == loader.drops + 1
       IN  IF ext \in SUPPORTED_EXTENSIONS
           THEN LoaderStep(loadModelFile(id, ext))
           ELSE LoaderStep([loader EXCEPT
                   !.error = "unsupported", !.drops = id,
                   !.lastOp = [op |-> "drop", id |-> id, ok |-> FALSE]])

\* the state updates of a hook that is still mounted; an unmounted
\* component has no state to update
SetState(next) ==
    IF loader.mounted THEN next
    ELSE [loader EXCEPT !.inflight = next.inflight, !.revoked = next.revoked,
                        !.succeeded = next.succeeded, !.lastOp = next.lastOp]

\* a rejected load that also clears the displayed model
loadSettledClearing(id, ok) ==
    /\ id \in loader.inflight
    /\ LoaderStep(SetState(
          IF ok
          THEN [loader EXCEPT !.modelObject = id,
                              !.loadedModel = [url |-> id, name |-> id],
                              !.isLoading = FALSE, !.inflight = @ \ {id},
                              !.succeeded = @ \cup {id},
                              !.lastOp = [op |-> "settle", id |-> id, ok |-> TRUE]]
          ELSE [loader EXCEPT !.error = "failed", !.revoked = @ \cup {id},
                              !.modelObject = 0, !.loadedModel = NoLoadedModel,
                              !.isLoading = FALSE, !.inflight = @ \ {id},
                              !.lastOp = [op |-> "settle", id |-> id, ok |-> FALSE]]))
\* the rest of loadModelFile(file) once loader.loadAsync(url) has settled:
\* the try block after the await, or the catch block, and then finally
loadSettled(id, ok) ==
    /\ id \in loader.inflight
    /\ LoaderStep(SetState(
          IF ok
          THEN [loader EXCEPT !.modelObject = id,
                              !.loadedModel = [url |-> id, name |-> id],
                              !.isLoading = FALSE, !.inflight = @ \ {id},
                              !.succeeded = @ \cup {id},
                              !.lastOp = [op |-> "settle", id |-> id, ok |-> TRUE]]
          ELSE [loader EXCEPT !.error = "failed", !.revoked = @ \cup {id},
                              !.isLoading = FALSE, !.inflight = @ \ {id},
                              !.lastOp = [op |-> "settle", id |-> id, ok |-> FALSE]]))

\* clearModel(): the callback closes over the loadedModel of the last render
clearModel ==
    /\ loader.mounted
    /\ loader.lastOp.op # "clear"
    /\ LoaderStep([loader EXCEPT
          !.revoked = Revoked(loader.committed),
          !.loadedModel = NoLoadedModel, !.modelObject = 0, !.error = "",
          !.lastDrop = 0,
          !.lastOp = [op |-> "clear", id |-> 0, ok |-> TRUE]])

\* a render of the hook after loadedModel changed: the cleanup of the effect
\* of the previous render runs, and the effect is set up again
renderLoader ==
    /\ loader.mounted
    /\ loader.loadedModel # loader.committed
    /\ LoaderStep([loader EXCEPT
          !.revoked = Revoked(loader.committed),
          !.committed = loader.loadedModel,
          !.lastOp = [op |-> "render", id |-> 0, ok |-> TRUE]])

\* the component unmounts: the cleanup of the effect of the last render runs
unmount ==
    /\ loader.mounted
    /\ LoaderStep([loader EXCEPT
          !.revoked = Revoked(loader.committed),
          !.mounted = FALSE,
          !.lastOp = [op |-> "unmount", id |-> 0, ok |-> TRUE]])

(***************************************************************************)
(* The application when ModelViewer is mounted                             *)
(***************************************************************************)
InitApp ==
    /\ viewer = DEFAULT_VIEWER_SETTINGS
    /\ closure = Captured(DEFAULT_VIEWER_SETTINGS, DEFAULT_POST_EFFECT_SETTINGS)
    /\ issued = << >>
    /\ io = IOResult(0, "none", NoFile, FALSE, FALSE, "none", "")
    /\ loader = LoaderMounted

(***************************************************************************)
(* Specifications                                                          *)
(***************************************************************************)
InitFx == InitSettings /\ Mounted("sphere", SphereUniforms, NoModel) /\ InitApp

SpecFx == InitFx /\ [][NextFx]_vars

InitDeform ==
    /\ InitSettings
    /\ InitApp
    /\ \/ Mounted("sphere", SphereUniforms, NoModel)
       \/ Mounted("ripple", SphereUniforms, NoModel)
       \/ \E slots \in SlotLists :
             Mounted("model", ModelUniforms(Group(1, slots)), Group(1, slots))

NextDeform ==
    \/ triggerDeform
    \/ rippleTriggerDeform
    \/ \E delta \in Deltas : useFrame(delta)
    \/ \E delta \in Deltas : rippleUseFrame(delta)

SpecDeform == InitDeform /\ [][NextDeform]_vars

\* the render loop keeps calling the frame callbacks with a positive
\* deltaTime
FairFrames ==
    /\ WF_vars(\E delta \in Deltas \ {0} : useFrame(delta))
    /\ WF_vars(\E delta \in Deltas \ {0} : rippleUseFrame(delta))

SpecDeformLive == InitDeform /\ [][NextDeform]_vars /\ FairFrames

\* deltaTime values of a frame while models are replaced
LongDeltas == {1000}

InitInject ==
    /\ InitSettings
    /\ InitApp
    /\ \/ Mounted("sphere", SphereUniforms, NoModel)
       \/ \E slots \in SlotLists :
             Mounted("model", ModelUniforms(Group(1, slots)), Group(1, slots))

NextInject ==
    \/ triggerDeform
    \/ \E delta \in LongDeltas : useFrame(delta)
    \/ \E m \in Models \cup {NoModel} : renderWithModel(m)
    \/ \E k \in MaterialNames : compile(k)

SpecInject == InitInject /\ [][NextInject]_vars

\* the panel: setters, toggles and the glitch sliders between renders
NextSettings ==
    \/ toggleWireframe
    \/ toggleGrid
    \/ toggleAxes
    \/ toggleAutoRotate
    \/ toggleHdri
    \/ toggleDirectionalLight
    \/ \E color \in Colors : setBackgroundColor(color)
    \/ \E value \in Angles : setLightAzimuth(value)
    \/ \E value \in Angles : setLightElevation(value)
    \/ \E value \in Distances : setLightDistance(value)
    \/ \E index \in HdriIndices : setHdriIndex(index)
    \/ \E value \in Angles : setHdriRotation(value)
    \/ \E value \in Intensities : setHdriIntensity(value)
    \/ \E color \in Colors : setDirectionalLightColor(color)
    \/ \E value \in Intensities : setDirectionalLightIntensity(value)
    \/ \E key \in POST_EFFECT_TUPLE_KEYS : \E index \in {0, 1} :
          \E v \in TupleSliderValues(key, index) :
             tupleSliderChange(key, index, v)
    \/ renderViewer

SpecSettings == InitFx /\ [][NextSettings]_vars

\* export and import of settings files
NextIO ==
    \/ exportSettings
    \/ \E content \in Selectable : \E onError \in BOOLEAN :
          handleFileChange(content, onError)
    \/ \E index \in HdriIndices : setHdriIndex(index)
    \/ toggleWireframe
    \/ renderViewer

SpecIO == InitFx /\ [][NextIO]_vars

\* the model loader
NextLoader ==
    \/ \E ext \in Extensions : handleDrop(ext)
    \/ \E id \in loader.inflight : \E ok \in BOOLEAN : loadSettled(id, ok)
    \/ clearModel
    \/ renderLoader
    \/ unmount

SpecLoader == InitFx /\ [][NextLoader]_vars


(***************************************************************************)
(* Vocabulary of the properties of the effect chain                        *)
(***************************************************************************)
\* the canonical order of the stages
CanonicalOrder ==
    << "SMAA", "Bloom", "Vignette", "ToneMapping", "HueSaturation",
       "DepthOfField", "ColorAverage", "Pixelation", "DotScreen", "Glitch",
       "Cyberpunk" >>

\* the enable flag of each stage, in the same order
FlagOrder ==
    << "smaaEnabled", "bloomEnabled", "vignetteEnabled", "toneMappingEnabled",
       "hueSaturationEnabled", "depthOfFieldEnabled", "colorAverageEnabled",
       "pixelationEnabled", "dotScreenEnabled", "glitchEnabled",
       "cyberpunkEnabled" >>

\* the parameters that belong to the effect of a flag
ParamsOf(flag) ==
    CASE flag = "bloomEnabled"         -> {"bloomIntensity", "bloomThreshold"}
      [] flag = "vignetteEnabled"      -> {"vignetteOffset", "vignetteDarkness"}
      [] flag = "hueSaturationEnabled" -> {"hue", "saturation"}
      [] flag = "depthOfFieldEnabled"  -> {"focusDistance", "focalLength", "bokehScale"}
      [] flag = "pixelationEnabled"    -> {"pixelationGranularity"}
      [] flag = "dotScreenEnabled"     -> {"dotScreenScale"}
      [] flag = "glitchEnabled"        -> POST_EFFECT_TUPLE_KEYS
      [] flag = "cyberpunkEnabled"     ->
            {"cyberpunkScanlineDensity", "cyberpunkScanlineStrength",
             "cyberpunkNoiseStrength", "cyberpunkRgbShiftStrength"}
      [] OTHER -> {}

\* PostEffects has rendered with the current settings
Rendered == pending = 0

\* positions of the stages of one type in a list
Positions(list, type) == { i \in DOMAIN list : list[i].type = type }

EnabledAt(n) == Truthy(postEffects, FlagOrder[n])

\* C1: of any two enabled effects, the one earlier in the canonical order
\* stands earlier in the effect list.
C1_EnabledInCanonicalOrder ==
    Rendered =>
        \A a, b \in DOMAIN CanonicalOrder :
            (a < b /\ EnabledAt(a) /\ EnabledAt(b)) =>
                \E i \in Positions(effects, CanonicalOrder[a]) :
                    \E j \in Positions(effects, CanonicalOrder[b]) : i < j

\* C2: the chain has exactly one stage for each of the eleven effects whose
\* flag is true and none for an effect whose flag is false.
C2_OneStagePerEnabledFlag ==
    Rendered =>
        \A n \in DOMAIN CanonicalOrder :
            Cardinality(Positions(effects, CanonicalOrder[n]))
                = IF EnabledAt(n) THEN 1 ELSE 0

\* C3: no EffectComposer is mounted exactly when every enable flag is false;
\* with the default settings the chain is the single stage SMAA.
C3_NullIffAllDisabled ==
    Rendered =>
        /\ (~composer.mounted) <=> (\A n \in DOMAIN FlagOrder : ~EnabledAt(n))
        /\ postEffects = DEFAULT_POST_EFFECT_SETTINGS =>
              (Len(effects) = 1 /\ effects[1].type = "SMAA")


\* the stages of one type in the rendered list
StagesOf(type) == { effects[i] : i \in Positions(effects, type) }

\* the settings of the scenario: SMAA and Bloom on, intensity 1.5,
\* threshold 0.9, every other flag off
IsBloomScenario(s) ==
    /\ s.smaaEnabled = TRUE /\ s.bloomEnabled = TRUE
    /\ s.bloomIntensity = 1500 /\ s.bloomThreshold = 900
    /\ \A k \in POST_EFFECT_BOOLEAN_KEYS \ {"smaaEnabled", "bloomEnabled"} :
          ~Truthy(s, k)

\* C4: every stage carries the current values of its own parameters and
\* fixed constants for the rest; the scenario settings give exactly
\* [SMAA, Bloom(intensity 1.5, threshold 0.9, smoothing 0.9)].
C4_StagesCarryOwnParameters ==
    Rendered =>
        /\ \A st \in StagesOf("Bloom") :
              /\ st.intensity = postEffects.bloomIntensity
              /\ st.luminanceThreshold = postEffects.bloomThreshold
              /\ st.luminanceSmoothing = 900
        /\ \A st \in StagesOf("Vignette") :
              /\ st.offset = postEffects.vignetteOffset
              /\ st.darkness = postEffects.vignetteDarkness
        /\ \A st \in StagesOf("HueSaturation") :
              /\ st.hue * 10000 <= postEffects.hue * 31416
              /\ postEffects.hue * 31416 < (st.hue + 1) * 10000
              /\ st.saturation = postEffects.saturation
        /\ \A st \in StagesOf("DepthOfField") :
              /\ st.focusDistance = postEffects.focusDistance
              /\ st.focalLength = postEffects.focalLength
              /\ st.bokehScale = postEffects.bokehScale
        /\ \A st \in StagesOf("Pixelation") :
              st.granularity = postEffects.pixelationGranularity
        /\ \A st \in StagesOf("DotScreen") :
              st.scale = postEffects.dotScreenScale
        /\ IsBloomScenario(postEffects) =>
              effects = << [type |-> "SMAA", key |-> "smaa"],
                           [type |-> "Bloom", key |-> "bloom",
                            intensity |-> 1500, luminanceThreshold |-> 900,
                            luminanceSmoothing |-> 900] >>

\* C4 witness: the scenario settings have been rendered as a two-stage chain
C4_Witness ==
    Rendered /\ IsBloomScenario(postEffects) /\ Len(effects) = 2

\* two records have the same value, or both no value, for a key
Same(s, t, key) ==
    /\ (key \in DOMAIN s) <=> (key \in DOMAIN t)
    /\ key \in DOMAIN s => s[key] = t[key]

\* s and t agree on every enable flag and on the parameters of every
\* enabled effect
Agree(s, t) ==
    \A flag \in POST_EFFECT_BOOLEAN_KEYS :
        /\ Same(s, t, flag)
        /\ Truthy(s, flag) => \A p \in ParamsOf(flag) : Same(s, t, p)

\* the parameters of the effects that are disabled in s
DisabledParams(s) ==
    UNION { ParamsOf(flag) : flag \in { f \in POST_EFFECT_BOOLEAN_KEYS : ~Truthy(s, f) } }

\* a value of the parameter other than the one s holds
OtherValue(s, p) ==
    CHOOSE v \in SliderValues(p) : p \in DOMAIN s => v # s[p]

\* s with every parameter of every disabled effect changed at once
Scrambled(s) ==
    [f \in (DOMAIN s) \cup DisabledParams(s) |->
        IF f \in DisabledParams(s) THEN OtherValue(s, f) ELSE s[f]]

\* settings compared with s: s with one field changed (a flag, a parameter
\* of an enabled or of a disabled effect), and s with all parameters of all
\* disabled effects changed
Compared(s) ==
         UNION { { Spread(s, p, v) : v \in SliderValues(p) } :
                    p \in POST_EFFECT_NUMBER_KEYS \cup POST_EFFECT_TUPLE_KEYS }
    \cup { Spread(s, f, ~Truthy(s, f)) : f \in POST_EFFECT_BOOLEAN_KEYS }
    \cup { Scrambled(s) }

\* C5: settings that agree on all enable flags and on the parameters of
\* every enabled effect give the same chain and the same decision to mount
\* a composer.
C5_DisabledParametersIgnored ==
    \A t \in Compared(postEffects) :
        Agree(postEffects, t) =>
            /\ BuildEffects(t) = BuildEffects(postEffects)
            /\ Returned(BuildEffects(t)) = Returned(BuildEffects(postEffects))

\* C5 witness: a chain is mounted while a disabled effect holds a parameter
\* that is not its default, and the settings with all disabled parameters
\* changed differ from the current ones
C5_Witness ==
    /\ Rendered /\ composer.mounted
    /\ postEffects.dotScreenEnabled = TRUE
    /\ postEffects.pixelationEnabled = FALSE
    /\ postEffects.pixelationGranularity # DEFAULT_POST_EFFECT_SETTINGS.pixelationGranularity
    /\ Agree(postEffects, Scrambled(postEffects))
    /\ Scrambled(postEffects) # postEffects

\* C6: once PostEffects has rendered, the memoised list and what is mounted
\* are what a fresh build from the current settings gives.
C6_MemoEqualsFreshBuild ==
    Rendered =>
        /\ effects = BuildEffects(postEffects)
        /\ composer = Returned(BuildEffects(postEffects))

\* C6 witness: after several changes, among them one to a field the builder
\* does not read, a rebuilt chain is rendered
C6_Witness ==
    /\ Rendered /\ edits >= 2
    /\ effects # BuildEffects(DEFAULT_POST_EFFECT_SETTINGS)
    /\ postEffects.glitchStrength # DEFAULT_POST_EFFECT_SETTINGS.glitchStrength
    /\ postEffects.bloomEnabled = TRUE


(***************************************************************************)
(* Properties of the deformation amplitude controller                      *)
(***************************************************************************)
\* the configured maximum: 0.8 for the sphere, 0.07 for an external model
ConfiguredMaximum(tg) == IF tg = "model" THEN 7000 ELSE 80000

\* C7 as stated: no frame ends with an amplitude in (0, 0.001].
C7_NoFrameEndsInsideThreshold ==
    last.op = "frame" => (amplitude = 0 \/ amplitude > 100)

\* C7 amended: a frame that starts with an amplitude of 0.001 or below ends
\* with exactly 0, so only the frame in which the decay crosses the
\* threshold can end with an amplitude in (0, 0.001].
C7_ResetOnFrameAfterCrossing ==
    last.op = "frame" =>
        /\ last.before <= 100 => amplitude = 0
        /\ (0 < amplitude /\ amplitude <= 100) => last.before > 100

\* C7 witness: the frame after the crossing frame has reset the amplitude
C7_Witness ==
    last.op = "frame" /\ 0 < last.before /\ last.before <= 100 /\ amplitude = 0

\* C8: trigger() sets the amplitude to exactly the configured maximum
\* whatever it was, and a second trigger() with no frame in between changes
\* nothing.
C8_TriggerSetsMaximum ==
    [][ last'.op = "trigger" =>
          /\ amplitude' = ConfiguredMaximum(target')
          /\ last.op = "trigger" =>
                UNCHANGED <<target, amplitude, time, uniforms>> ]_vars

\* C8 witness: trigger() was called twice with no frame in between
C8_Witness ==
    /\ last.op = "trigger" /\ last.count = 2
    /\ amplitude = ConfiguredMaximum(target)

\* C9: the amplitude always lies between 0 and the configured maximum.
C9_AmplitudeInRange ==
    0 <= amplitude /\ amplitude <= ConfiguredMaximum(target)

\* C9 witness: after earlier frames and a trigger, a frame has decayed the
\* amplitude from the maximum
C9_Witness ==
    /\ last.op = "frame" /\ last.before = ConfiguredMaximum(target)
    /\ 0 < amplitude /\ amplitude < ConfiguredMaximum(target)
    /\ time > last.delta

\* C10: a frame adds its deltaTime to the elapsed time whatever the
\* amplitude, trigger() leaves the elapsed time unchanged, and the elapsed
\* time never decreases.
C10_ElapsedTimeAccumulates ==
    [][ /\ last'.op = "frame" => time' = time + last'.delta
        /\ last'.op = "trigger" => time' = time
        /\ time' >= time ]_vars

\* C10 witness: a frame with a positive deltaTime ran while the amplitude
\* was zero, after earlier frames
C10_Witness ==
    /\ last.op = "frame" /\ last.before = 0 /\ last.delta > 0
    /\ time > last.delta

\* C11: between two triggers the amplitude never increases: a frame with any
\* deltaTime >= 0 leaves it less than or equal to its value before the
\* frame.
C11_FrameNeverIncreasesAmplitude ==
    last.op = "frame" => amplitude <= last.before

\* C11 witness: a second frame in a row has lowered an amplitude that was
\* already below the maximum
C11_Witness ==
    /\ last.op = "frame" /\ last.delta > 0
    /\ last.before < ConfiguredMaximum(target)
    /\ 0 < amplitude /\ amplitude < last.before

\* C12: when the amplitude is exactly 0 a frame of any deltaTime leaves it
\* 0, and only trigger() makes it nonzero.
C12_IdleLeftOnlyByTrigger ==
    [][ amplitude = 0 =>
          /\ last'.op = "frame" => amplitude' = 0
          /\ amplitude' # 0 => last'.op = "trigger" ]_vars

\* C12 witness: after idle frames had advanced the time, a trigger() has
\* raised the amplitude from 0
C12_Witness ==
    /\ last.op = "trigger" /\ last.before = 0 /\ last.count = 1
    /\ amplitude > 0 /\ time > 0

\* C13: a decaying amplitude on which frames with a positive deltaTime keep
\* acting becomes exactly 0 unless trigger() is called again, and an
\* amplitude of 0 stays 0 until trigger() is called. A decay from the
\* maximum takes at most 7.5 s of frames, so the decay is followed from the
\* states that leave that much of the explored time.
C13_ActiveReturnsToIdle ==
    /\ (last.op = "frame" /\ amplitude > 0 /\ time + 7500 <= MaxTime)
            ~> (amplitude = 0 \/ last.op = "trigger")
    /\ [][ (amplitude = 0 /\ last'.op # "trigger") => amplitude' = 0 ]_vars

\* C13 witness: a frame has reset the amplitude of a decay that no trigger()
\* interrupted for more than a second
C13_Witness ==
    /\ last.op = "frame" /\ last.before > 0 /\ amplitude = 0
    /\ time >= 1500

Abs(x) == IF x < 0 THEN 0 - x ELSE x

\* maxAmplitude * exp(-decaySpeed * t), taken in steps of at most one second
RECURSIVE ClosedForm(_, _, _)
ClosedForm(amp, t, speed) ==
    IF t = 0 THEN amp
    ELSE IF t > 1000
         THEN ClosedForm((amp * MathExpNeg(1000, speed) + 5000) \div 10000,
                         t - 1000, speed)
         ELSE (amp * MathExpNeg(t, speed) + 5000) \div 10000

\* C14: while the amplitude stays above the threshold every frame multiplies
\* it by exp(-deltaTime * decaySpeed), and the amplitude reached is
\* maxAmplitude * exp(-decaySpeed * t) for the time t since the trigger,
\* however t was split into frames (to within 0.0002, the rounding of the
\* multiplications).
C14_DecayDependsOnElapsedTime ==
    (last.op = "frame" /\ amplitude > 100) =>
        /\ amplitude = (last.before * MathExpNeg(last.delta, decaySpeed(target))
                            + 5000) \div 10000
        /\ Abs(amplitude - ClosedForm(ConfiguredMaximum(target), elapsed,
                                      decaySpeed(target))) <= 20

\* C14 witness: one second after the trigger, reached by frames of a quarter
\* of a second
C14_Witness ==
    /\ last.op = "frame" /\ last.delta = 250 /\ elapsed = 1000
    /\ amplitude > 100 /\ last.before < ConfiguredMaximum(target)


(***************************************************************************)
(* Properties of the shader injection into an external model               *)
(***************************************************************************)
\* C15 as stated: a model that replaces the displayed one starts with an
\* amplitude of 0.
C15_NewModelStartsIdle ==
    (last.op = "render" /\ model # NoModel) => amplitude = 0

\* C16 as stated: the uniform record list holds exactly one record for every
\* distinct material instance of the model.
C16_OneRecordPerMaterialInstance ==
    (target = "model" /\ model # NoModel) =>
        Len(uniforms) = Cardinality(Range(model.materials))

BoundRecord(k) == uniforms[materials[k].hook]

\* C18: after every frame the record bound into each material of the current
\* model, and the uniforms of the sphere material, hold the amplitude and
\* the elapsed time the controller has after that frame's decay; the records
\* of all materials of the model agree at all times.
C18_UploadAfterDecay ==
    /\ (last.op = "frame" /\ target = "model") =>
            \A k \in DOMAIN materials :
                /\ BoundRecord(k).model = model.id
                /\ model.materials[BoundRecord(k).slot] = k
                /\ BoundRecord(k).uDeformAmplitude = amplitude
                /\ BoundRecord(k).uDeformTime = time
    /\ (last.op = "frame" /\ target = "sphere") =>
            /\ uniforms[1].uAmplitude = amplitude
            /\ uniforms[1].uTime = time
    /\ target = "model" =>
            \A k1, k2 \in DOMAIN materials :
                /\ BoundRecord(k1).uDeformAmplitude = BoundRecord(k2).uDeformAmplitude
                /\ BoundRecord(k1).uDeformTime = BoundRecord(k2).uDeformTime

\* C18 witness: a frame has decayed a positive amplitude on a model with two
\* materials that replaced another model
C18_Witness ==
    /\ last.op = "frame" /\ target = "model" /\ loaded = 2
    /\ model.materials = << "standard", "custom" >>
    /\ 0 < amplitude /\ amplitude < last.before

\* the text the claim describes: declarations, noise source, then the
\* original text with every marker chunk exchanged for the displacement code
Patched(text) ==
    << DEFORM_UNIFORMS_GLSL, "\n", SIMPLEX_NOISE_GLSL_INJECTED, "\n" >>
        \o [i \in DOMAIN text |->
              IF text[i] = BEGIN_VERTEX THEN DEFORM_VERTEX_GLSL ELSE text[i]]

\* C19: a compiled material has the patched vertex shader, the three deform
\* uniforms of its shader are the value holders of a record created for that
\* material and kept in the list, and the effect leaves every traversed
\* material flagged needsUpdate.
C19_CompileHookPatchesShader ==
    /\ \A k \in DOMAIN materials :
          materials[k].compiled =>
            /\ materials[k].shader.vertexShader = Patched(VertexShaderOf(k))
            /\ BoundRecord(k).model = model.id
            /\ model.materials[BoundRecord(k).slot] = k
            /\ \A n \in DeformUniformNames :
                  materials[k].shader.uniforms[n]
                      = Holder(BoundRecord(k).model, BoundRecord(k).slot, n)
            /\ materials[k].shader.uniforms["diffuse"] = Holder(model.id, 0, "diffuse")
    /\ (last.op \in {"mount", "render"} /\ model # NoModel) =>
          /\ DOMAIN materials = Range(model.materials)
          /\ \A k \in DOMAIN materials : materials[k].needsUpdate

\* C19 witness: the built-in material of a model that uses it in two slots
\* has been compiled
C19_Witness ==
    /\ target = "model" /\ model.materials = << "standard", "standard" >>
    /\ materials["standard"].compiled
    /\ DEFORM_VERTEX_GLSL \in Range(materials["standard"].shader.vertexShader)

\* C20: the compile hook runs for every flagged material; for a vertex shader
\* without the marker it leaves the text as declarations, noise source and
\* the original text, with no displacement code; the other materials of the
\* model are hooked all the same, and the frames go on writing all records.
C20_MissingMarkerIsSilent ==
    /\ \A k \in DOMAIN materials : materials[k].needsUpdate => ENABLED compile(k)
    /\ \A k \in DOMAIN materials :
          (materials[k].compiled /\ BEGIN_VERTEX \notin Range(VertexShaderOf(k))) =>
            /\ DEFORM_VERTEX_GLSL \notin Range(materials[k].shader.vertexShader)
            /\ materials[k].shader.vertexShader
                  = << DEFORM_UNIFORMS_GLSL, "\n", SIMPLEX_NOISE_GLSL_INJECTED,
                       "\n" >> \o VertexShaderOf(k)
            /\ \A j \in DOMAIN materials :
                  j # k => (materials[j].needsUpdate \/ materials[j].compiled)
            /\ last.op = "frame" =>
                  \A i \in DOMAIN uniforms :
                      /\ uniforms[i].uDeformAmplitude = amplitude
                      /\ uniforms[i].uDeformTime = time

\* C20 witness: the custom material was compiled, the built-in material of
\* the same model after it, and a frame has then decayed a positive amplitude
C20_Witness ==
    /\ target = "model" /\ model.materials = << "custom", "standard" >>
    /\ materials["custom"].compiled /\ materials["standard"].compiled
    /\ DEFORM_VERTEX_GLSL \in Range(materials["standard"].shader.vertexShader)
    /\ last.op = "frame" /\ 0 < amplitude /\ amplitude < last.before


(***************************************************************************)
(* Properties of the settings import and export                            *)
(***************************************************************************)
\* the content is not valid JSON or does not pass isValidExportData
Rejectable(content) ==
    content.text # "json" \/ ~isValidExportData(content.value)

\* C22: an import of a file whose content is not valid JSON or does not pass
\* isValidExportData never calls onImport, leaves the settings unchanged and
\* reports the failure through onError, or through console.error and alert
\* when no onError was given.
C22_InvalidImportIsRejected ==
    [][ (io'.n # io.n /\ io'.op = "import" /\ Rejectable(io'.file))
          => /\ ~io'.imported
             /\ viewer' = viewer
             /\ postEffects' = postEffects
             /\ issued' = issued
             /\ io'.message # ""
             /\ io'.report = (IF io'.onError THEN "onError" ELSE "alert") ]_vars

\* a file that parses but is not export data was selected after the settings
\* had been changed, and it was reported with alert
C22_Witness ==
    /\ io.op = "import"
    /\ io.file.text = "json"
    /\ Rejectable(io.file)
    /\ ~io.imported
    /\ io.report = "alert"
    /\ viewer # DEFAULT_VIEWER_SETTINGS

\* C23 as stated: the file exportSettings writes for the current settings
\* passes isValidExportData, and importing it hands onImport settings equal
\* to the exported ones.
C23_ExportImportRoundTrip ==
    LET s == ViewerSettings(viewer, postEffects)
        file == ExportFile(s)
    IN  /\ isValidExportData(file.value)
        /\ ParsedSettings(Get(file.value, "settings")) = s

\* C30: the HDRI path the environment uses is the path of an entry of
\* HDRI_LIST, also for an index out of range that came from an imported
\* file, and the index setHdriIndex stores lies in [0, HDRI_LIST.length - 1].
C30_HdriPathIsListed ==
    /\ closure.hdriPath \in Range(HDRI_LIST)
    /\ \A i \in 1..Len(issued) :
          (issued[i].op = "set" /\ issued[i].key = "hdriIndex")
             => issued[i].value \in 0..(Len(HDRI_LIST) - 1)

\* the environment was rendered with an imported index that has no entry
C30_Witness ==
    /\ closure.viewer.hdriIndex \notin 0..(Len(HDRI_LIST) - 1)
    /\ io.op = "import"
    /\ io.imported

(***************************************************************************)
(* Properties of the settings updates                                      *)
(***************************************************************************)
\* the settings s after the update c alone: the targeted field has its new
\* value and every other field is the one of s
AfterCall(c, s) ==
    IF c.op = "replace" THEN c.value
    ELSE IF c.key \in DOMAIN s.viewer
    THEN ViewerSettings(
            [f \in DOMAIN s.viewer |->
                IF f # c.key THEN s.viewer[f]
                ELSE IF c.op = "toggle" THEN ~s.viewer[f] ELSE c.value],
            s.postEffects)
    ELSE ViewerSettings(
            s.viewer,
            [f \in (DOMAIN s.postEffects) \cup {c.key} |->
                IF f # c.key THEN s.postEffects[f] ELSE c.value])

\* the settings s after the updates of calls, each applied to the result of
\* the one before
RECURSIVE AfterCalls(_, _)
AfterCalls(calls, s) ==
    IF Len(calls) = 0 THEN s
    ELSE AfterCalls(Tail(calls), AfterCall(Head(calls), s))

\* C28: the updates issued since the last render compose: the state is the
\* rendered settings with every update applied to the state the previous
\* one left.
C28_UpdatesCompose ==
    ViewerSettings(viewer, postEffects)
       = AfterCalls(issued, ViewerSettings(closure.viewer, closure.postEffects))

\* two different top-level fields were changed before the next render
C28_Witness ==
    /\ Len(issued) = 2
    /\ issued[1].key # issued[2].key
    /\ issued[1].key \in DOMAIN viewer
    /\ issued[2].key \in DOMAIN viewer
    /\ viewer[issued[1].key] # closure.viewer[issued[1].key]
    /\ viewer[issued[2].key] # closure.viewer[issued[2].key]

\* the value the slider of the element index of key gave last since the
\* render, or the rendered element when that slider was not moved
LatestElement(key, index) ==
    LET moves == { i \in 1..Len(issued) :
                      /\ "index" \in DOMAIN issued[i]
                      /\ issued[i].key = key
                      /\ issued[i].index = index }
    IN  IF moves = {} THEN closure.postEffects[key][index + 1]
        ELSE issued[CHOOSE i \in moves : \A j \in moves : j <= i].v

\* C29 as stated: each element of a glitch tuple holds the latest value set
\* for it, also when both sliders of the tuple moved before the render.
C29_TupleElementsIndependent ==
    \A key \in POST_EFFECT_TUPLE_KEYS : \A index \in {0, 1} :
       postEffects[key][index + 1] = LatestElement(key, index)

(***************************************************************************)
(* Properties of the model loader                                          *)
(***************************************************************************)
\* C24: a failed load leaves the displayed model untouched: the drop of a
\* file and the rejection of its load change neither modelObject nor
\* loadedModel, and a failure sets error.
C24_FailedLoadKeepsModel ==
    [][ (/\ loader.mounted
         /\ loader' # loader
         /\ \/ loader'.lastOp.op = "drop"
            \/ loader'.lastOp.op = "settle" /\ ~loader'.lastOp.ok)
          => /\ loader'.modelObject = loader.modelObject
             /\ loader'.loadedModel = loader.loadedModel
             /\ ~loader'.lastOp.ok => loader'.error # "" ]_vars

\* the load of a dropped file was rejected while a model was displayed
C24_Witness ==
    /\ loader.lastOp.op = "settle"
    /\ ~loader.lastOp.ok
    /\ loader.modelObject # 0
    /\ loader.loadedModel.url = loader.modelObject
    /\ loader.error = "failed"

\* C25 as stated: once no load is in flight, the displayed model is the one
\* of the most recently dropped file whose load succeeded.
C25_LastDropIsDisplayed ==
    (/\ loader.mounted
     /\ loader.inflight = {}
     /\ loader.lastDrop \in loader.succeeded)
       => /\ loader.modelObject = loader.lastDrop
          /\ loader.loadedModel.name = loader.lastDrop

\* C26 as stated: isLoading is true exactly while a load is in flight.
C26_LoadingIffInFlight ==
    loader.mounted => (loader.isLoading <=> loader.inflight # {})

\* C27 as stated: after the unmount, with no load left in flight, every
\* object URL that was created has been revoked.
C27_NoUrlLeftAfterUnmount ==
    (~loader.mounted /\ loader.inflight = {})
       => loader.created \subseteq loader.revoked

=============================================================================
